---- MODULE Spec2Model ----
(***************************************************************************)
(* Model of pandas_genomics/simulation.py: the BialleleicSimulation        *)
(* configuration (direct constructor and from_model) and                   *)
(* generate_case_control.                                                  *)
(*                                                                         *)
(* Numbers.  numpy float64 values are modelled as exact rationals <<n, d>> *)
(* in lowest terms with d > 0, plus the three IEEE specials the code can   *)
(* produce by dividing by zero: NaN = <<0,0>>, +inf = <<1,0>> and          *)
(* -inf = <<-1,0>>.  Rounding error is not modelled.                       *)
(***************************************************************************)
EXTENDS Integers, Sequences, FiniteSets, TLC

VARIABLES req, pc, sim, rng, call

vars == <<req, pc, sim, rng, call>>

-----------------------------------------------------------------------------
(* float64 arithmetic, as exact rationals with NaN and infinities *)

Abs(n) == IF n < 0 THEN -n ELSE n

Sign(n) == IF n < 0 THEN -1 ELSE IF n > 0 THEN 1 ELSE 0

RECURSIVE GCD(_, _)
GCD(a, b) == IF b = 0 THEN a ELSE GCD(b, a % b)

LCM(a, b) == (a \div GCD(a, b)) * b

NaN == <<0, 0>>

IsNaN(x) == x = NaN

IsFinite(x) == x[2] # 0

\* the float n/d; d = 0 gives nan (0/0) or a signed infinity (x/0)
Rat(n, d) ==
    IF d = 0 THEN <<Sign(n), 0>>
    ELSE LET g == GCD(Abs(n), Abs(d))
         IN  <<Sign(d) * (n \div g), Abs(d) \div g>>

Num(n) == <<n, 1>>

RAdd(x, y) ==
    IF IsFinite(x) /\ IsFinite(y)
    THEN LET m == LCM(x[2], y[2])
         IN  Rat(x[1] * (m \div x[2]) + y[1] * (m \div y[2]), m)
    ELSE IF IsNaN(x) \/ IsNaN(y) THEN NaN
    ELSE IF IsFinite(x) THEN y
    ELSE IF IsFinite(y) THEN x
    ELSE IF x = y THEN x ELSE NaN

RNeg(x) == <<-x[1], x[2]>>

RSub(x, y) == RAdd(x, RNeg(y))

RMul(x, y) ==
    IF IsFinite(x) /\ IsFinite(y)
    THEN LET g1 == GCD(Abs(x[1]), y[2])
             g2 == GCD(Abs(y[1]), x[2])
         IN  Rat((x[1] \div g1) * (y[1] \div g2), (x[2] \div g2) * (y[2] \div g1))
    ELSE IF IsNaN(x) \/ IsNaN(y) THEN NaN
    ELSE <<Sign(x[1]) * Sign(y[1]), 0>>

RDiv(x, y) ==
    IF IsNaN(x) \/ IsNaN(y) THEN NaN
    ELSE IF IsFinite(y)
    THEN IF y[1] = 0 THEN <<Sign(x[1]), 0>>
         ELSE IF IsFinite(x) THEN RMul(x, Rat(y[2], y[1]))
         ELSE <<Sign(x[1]) * Sign(y[1]), 0>>
    ELSE IF IsFinite(x) THEN Num(0) ELSE NaN

\* x < y; every comparison with nan is False
RLess(x, y) ==
    IF IsNaN(x) \/ IsNaN(y) THEN FALSE
    ELSE IF IsFinite(x) /\ IsFinite(y) THEN x[1] * y[2] < y[1] * x[2]
    ELSE IF IsFinite(x) THEN y[1] > 0
    ELSE IF IsFinite(y) THEN x[1] < 0
    ELSE x[1] < y[1]

RLeq(x, y) == ~IsNaN(x) /\ ~IsNaN(y) /\ ~RLess(y, x)

-----------------------------------------------------------------------------
(* numpy arrays: a vector is a sequence, a 2-d array a sequence of rows *)

shape(a) == IF Len(a) = 0 THEN <<0, 0>> ELSE <<Len(a), Len(a[1])>>

\* ndarray.flatten(): row-major, the rows one after the other
RECURSIVE flatten(_)
flatten(a) == IF a = <<>> THEN <<>> ELSE Head(a) \o flatten(Tail(a))

\* ndarray.transpose() of a 2-d array
transpose(a) ==
    [c \in 1..Len(a[1]) |-> [r \in 1..Len(a) |-> a[r][c]]]

RECURSIVE VecMin(_)
VecMin(v) ==
    IF Len(v) = 1 THEN v[1]
    ELSE LET m == VecMin(Tail(v))
         IN  IF IsNaN(v[1]) \/ IsNaN(m) THEN NaN
             ELSE IF RLess(m, v[1]) THEN m ELSE v[1]

RECURSIVE VecMax(_)
VecMax(v) ==
    IF Len(v) = 1 THEN v[1]
    ELSE LET m == VecMax(Tail(v))
         IN  IF IsNaN(v[1]) \/ IsNaN(m) THEN NaN
             ELSE IF RLess(v[1], m) THEN m ELSE v[1]

\* ndarray.min() / ndarray.max() / ndarray.sum() over all cells
amin(a) == VecMin(flatten(a))

amax(a) == VecMax(flatten(a))

RECURSIVE VecSum(_)
VecSum(v) == IF v = <<>> THEN Num(0) ELSE RAdd(v[1], VecSum(Tail(v)))

asum(a) == VecSum(flatten(a))

\* elementwise operations with a scalar and between arrays of one shape
Map1(F(_), a) == [r \in 1..Len(a) |-> [c \in 1..Len(a[r]) |-> F(a[r][c])]]

Map2(F(_, _), a, b) ==
    [r \in 1..Len(a) |-> [c \in 1..Len(a[r]) |-> F(a[r][c], b[r][c])]]

\* np.repeat(a, n, axis=0): every row n times in place
repeat_axis0(a, n) ==
    [i \in 1..(Len(a) * n) |-> a[((i - 1) \div n) + 1]]

\* np.repeat(a, n, axis=1): every element of every row n times in place
repeat_axis1(a, n) ==
    [r \in 1..Len(a) |-> [j \in 1..(Len(a[r]) * n) |-> a[r][((j - 1) \div n) + 1]]]

\* np.outer(a, b) of two vectors: out[i][j] = a[i] * b[j]
outer(a, b) ==
    [i \in 1..Len(a) |-> [j \in 1..Len(b) |-> RMul(a[i], b[j])]]

\* array (op) array and scalar (op) array, elementwise
AAdd(a, b) == Map2(RAdd, a, b)

AMul(a, b) == Map2(RMul, a, b)

SAdd(k, a) == Map1(LAMBDA x : RAdd(k, x), a)

SSub(k, a) == Map1(LAMBDA x : RSub(k, x), a)

SMul(k, a) == Map1(LAMBDA x : RMul(k, x), a)

ASubS(a, k) == Map1(LAMBDA x : RSub(x, k), a)

ADivS(a, k) == Map1(LAMBDA x : RDiv(x, k), a)

-----------------------------------------------------------------------------
(* Variant, SNPEffectEncodings and the configuration object *)

None == [none |-> TRUE]

Variant(id, ref, alt) == [id |-> id, ref |-> ref, alt |-> alt]

SNPEffectEncodings ==
    [DOMINANT       |-> <<Num(0), Num(1), Num(1)>>,
     SUPER_ADDITIVE |-> <<Num(0), Rat(3, 4), Num(1)>>,
     ADDITIVE       |-> <<Num(0), Rat(1, 2), Num(1)>>,
     SUB_ADDITIVE   |-> <<Num(0), Rat(1, 4), Num(1)>>,
     RECESSIVE      |-> <<Num(0), Num(0), Num(1)>>,
     HET            |-> <<Num(0), Num(1), Num(0)>>]

\* an eff argument: a member of the enum or a plain 3-tuple of floats
EnumMember(name) == [enum |-> TRUE, name |-> name]

Tuple3(t) == [enum |-> FALSE, value |-> t]

DefaultPenTable ==
    << <<Num(0), Num(0), Num(1)>>,
       <<Num(0), Num(0), Num(1)>>,
       <<Num(1), Num(1), Num(2)>> >>

DefaultRandomSeed == 1855

DefaultSnp1 == Variant("rs1", "A", <<"a">>)

DefaultSnp2 == Variant("rs2", "B", <<"b">>)

\* mutant of validate_params: the check of snp2 is left out
validate_params_snp2_unchecked(pen_table, snp1, snp2) ==
    LET s1 == IF snp1 = None THEN DefaultSnp1 ELSE snp1
        s2 == IF snp2 = None THEN DefaultSnp2 ELSE snp2
    IN  IF shape(pen_table) # <<3, 3>> THEN [raised |-> "ValueError"]
        ELSE IF Len(s1.alt) # 1 THEN [raised |-> "ValueError"]
        ELSE [raised |-> "none", pen_table |-> pen_table, snp1 |-> s1, snp2 |-> s2]

\* _validate_params: the exception raised ("none" when it returns) and the
\* values returned
validate_params(pen_table, snp1, snp2) ==
    LET s1 == IF snp1 = None THEN DefaultSnp1 ELSE snp1
        s2 == IF snp2 = None THEN DefaultSnp2 ELSE snp2
    IN  IF shape(pen_table) # <<3, 3>> THEN [raised |-> "ValueError"]
        ELSE IF Len(s1.alt) # 1 THEN [raised |-> "ValueError"]
        ELSE IF Len(s2.alt) # 1 THEN [raised |-> "ValueError"]
        ELSE [raised |-> "none", pen_table |-> pen_table, snp1 |-> s1, snp2 |-> s2]

\* BialleleicSimulation(pen_table, snp1, snp2, random_seed): the exception
\* raised and, when there is none, the object built
NewSimulation(pen_table, snp1, snp2, random_seed) ==
    LET v == validate_params(pen_table, snp1, snp2)
    IN  IF v.raised # "none" THEN [raised |-> v.raised]
        ELSE [raised |-> "none",
              self   |-> [pen_table   |-> v.pen_table,
                          snp1        |-> v.snp1,
                          snp2        |-> v.snp2,
                          random_seed |-> random_seed]]

\* from_model, "Shape effects and scale if needed": eff is a 2-d array
ScaleEffect(eff) ==
    IF amin(eff) # Num(0) \/ amax(eff) # Num(1)
    THEN ADivS(ASubS(eff, amin(eff)), RSub(amax(eff), amin(eff)))
    ELSE eff

\* the effect arrays from_model builds the table from: SNP1 = columns (1x3),
\* SNP2 = rows (3x1)
ShapedEff1(eff1) ==
    ScaleEffect(<< IF eff1.enum THEN SNPEffectEncodings[eff1.name] ELSE eff1.value >>)

ShapedEff2(eff2) ==
    ScaleEffect(transpose(<< IF eff2.enum THEN SNPEffectEncodings[eff2.name] ELSE eff2.value >>))

\* mutant of ModelPenTable: the interaction term is np.outer(eff1, eff2)
ModelPenTable_outer_swapped(eff1, eff2, baseline, main1, main2, interaction) ==
    LET e1 == ShapedEff1(eff1)
        e2 == ShapedEff2(eff2)
    IN  AAdd(AAdd(SAdd(baseline, SMul(main1, repeat_axis0(e1, 3))),
                  SMul(main2, repeat_axis1(e2, 3))),
             SMul(interaction, outer(flatten(e1), flatten(e2))))

\* the pen_table from_model passes to the constructor (np.outer flattens the
\* 3x1 and 1x3 arrays it is given)
ModelPenTable(eff1, eff2, baseline, main1, main2, interaction) ==
    LET e1 == ShapedEff1(eff1)
        e2 == ShapedEff2(eff2)
    IN  AAdd(AAdd(SAdd(baseline, SMul(main1, repeat_axis0(e1, 3))),
                  SMul(main2, repeat_axis1(e2, 3))),
             SMul(interaction, outer(flatten(e2), flatten(e1))))

NoSim == [none |-> TRUE]

NoCall == [none |-> TRUE]

-----------------------------------------------------------------------------
(* The process-wide numpy generator.  Its state is abstracted to a number  *)
(* in 0..RngMod-1 that every sample steps to the next one; the uniform      *)
(* sample in [0, 1) is a function of the state it is drawn in.             *)

RngMod == 4

NextRng(s) == (s + 1) % RngMod

random_sample(s) == Rat(s, RngMod)

\* ndarray.cumsum() of a vector
RECURSIVE cumsum(_)
cumsum(p) ==
    IF p = <<>> THEN <<>>
    ELSE LET c == cumsum(SubSeq(p, 1, Len(p) - 1))
         IN  Append(c, IF c = <<>> THEN p[Len(p)] ELSE RAdd(c[Len(c)], p[Len(p)]))

\* cdf.searchsorted(u, side='right'): how many entries of cdf are <= u
searchsorted_right(cdf, u) == Cardinality({i \in 1..Len(cdf) : RLeq(cdf[i], u)})

\* np.random.choice rejects p with a nan, a negative entry or a sum that is not 1
ValidProbabilities(p) ==
    /\ \A i \in 1..Len(p) : ~IsNaN(p[i]) /\ ~RLess(p[i], Num(0))
    /\ VecSum(p) = Num(1)

\* size draws by inverse cdf, one uniform sample each: <<indices, generator state after>>
RECURSIVE DrawIdxs(_, _, _)
DrawIdxs(size, cdf, s) ==
    IF size = 0 THEN <<<<>>, s>>
    ELSE LET rest == DrawIdxs(size - 1, cdf, NextRng(s))
         IN  <<<<searchsorted_right(cdf, random_sample(s))>> \o rest[1], rest[2]>>

\* np.random.choice(range(9), size=size, p=p) on the global generator in state s
choice(size, p, s) ==
    IF ~ValidProbabilities(p) THEN [raised |-> "ValueError"]
    ELSE LET c   == cumsum(p)
             cdf == [i \in 1..Len(c) |-> RDiv(c[i], c[Len(c)])]
             d   == DrawIdxs(size, cdf, s)
         IN  [raised |-> "none", idxs |-> d[1], rng |-> d[2]]

-----------------------------------------------------------------------------
(* generate_case_control *)

min_p == Rat(1, 100)

p_diff == RSub(Num(1), RMul(Num(2), min_p))

\* "Scale the penetrance table to be between 0 and 1", then "Adjust the
\* penetrance table"
ScaledPenTable(pen_table) ==
    LET pen_table_min   == amin(pen_table)
        pen_table_range == RSub(amax(pen_table), pen_table_min)
        scaled          == ADivS(ASubS(pen_table, pen_table_min), pen_table_range)
    IN  SAdd(min_p, SMul(p_diff, scaled))

\* Prob(GT) of one SNP from its MAF, assuming HWE (a vector: the transpose()
\* of prob_snp2 leaves it as it is)
prob_snp(maf) ==
    LET q == RSub(Num(1), maf)
    IN  <<RMul(q, q), RMul(RMul(Num(2), maf), q), RMul(maf, maf)>>

prob_gt(maf1, maf2) == outer(prob_snp(maf2), prob_snp(maf1))

\* Prob(GT|Case)
prob_gt_given_case(pen_table, maf1, maf2) ==
    LET joint     == AMul(pen_table, prob_gt(maf1, maf2))
        prob_case == asum(joint)
    IN  ADivS(joint, prob_case)

\* Prob(GT|Control)
prob_gt_given_control(pen_table, maf1, maf2) ==
    LET joint        == AMul(SSub(Num(1), pen_table), prob_gt(maf1, maf2))
        prob_control == asum(joint)
    IN  ADivS(joint, prob_control)

\* the genotype records: (allele indices, score)
Genotype(a, b) == <<<<a, b>>, NaN>>

GtStates == <<Genotype(0, 0), Genotype(0, 1), Genotype(1, 1)>>

\* list * n
RECURSIVE ListTimes(_, _)
ListTimes(l, n) == IF n = 0 THEN <<>> ELSE l \o ListTimes(l, n - 1)

\* mutant of gt_data_snp2: laid out by column, like gt_data_snp1
gt_data_snp2_by_column == ListTimes(GtStates, 3)

\* flattened genotype tables: snp1 varies by column, snp2 by row
gt_data_snp1 == ListTimes(GtStates, 3)

gt_data_snp2 ==
    ListTimes(<<GtStates[1]>>, 3) \o ListTimes(<<GtStates[2]>>, 3)
        \o ListTimes(<<GtStates[3]>>, 3)

\* _get_gt_array; gt_table_idxs are 0-based list indices
get_gt_array(gt_table_idxs, gt_table_data, var) ==
    [type   |-> "GenotypeArray",
     dtype  |-> var,
     values |-> [k \in 1..Len(gt_table_idxs) |-> gt_table_data[gt_table_idxs[k] + 1]]]

\* pd.concat(objs, axis): objs must be a list of Series or DataFrame objects
concat(objs, axis) ==
    IF objs.type = "list" /\ \A i \in 1..Len(objs.items) : objs.items[i].type = "Series"
    THEN [raised |-> "none",
          value  |-> [type   |-> "Series",
                      values |-> flatten([i \in 1..Len(objs.items) |-> objs.items[i].values])]]
    ELSE [raised |-> "TypeError"]

\* Series.sample(frac=1).reset_index(drop=True): a permutation of the values
\* taken from the global generator
RECURSIVE sample_frac1(_, _)
sample_frac1(values, s) ==
    IF values = <<>> THEN <<>>
    ELSE LET k == (s % Len(values)) + 1
         IN  <<values[k]>> \o
             sample_frac1(SubSeq(values, 1, k - 1) \o SubSeq(values, k + 1, Len(values)),
                          NextRng(s))

\* A run of generate_case_control is recorded as: the exception raised and
\* the line raising it, the locals bound when the call ends, the value
\* returned and the state the global generator is left in.
RunStart(n_cases, n_controls, maf1, maf2, s) ==
    [args                  |-> <<n_cases, n_controls, maf1, maf2>>,
     raised                |-> "none",
     at                    |-> 0,
     pen_table             |-> <<>>,
     drawn                 |-> 0,
     case_gt_table_idxs    |-> <<>>,
     control_gt_table_idxs |-> <<>>,
     snp1_case_array       |-> None,
     snp2_case_array       |-> None,
     snp1_control_array    |-> None,
     snp2_control_array    |-> None,
     outcome               |-> None,
     result                |-> None,
     rng                   |-> s]

\* "Generate outcome": the outcome Series is shuffled on its own, and the
\* function ends without a return statement
RunOutcome(run, n_cases, n_controls) ==
    [run EXCEPT
        !.outcome = sample_frac1(ListTimes(<<"Case">>, n_cases)
                                    \o ListTimes(<<"Control">>, n_controls),
                                 run.rng),
        !.rng = NextRng(run.rng)]

\* "Merge data together"
RunMerge(run, n_cases, n_controls, snp1) ==
    IF snp1.raised # "none"
    THEN [run EXCEPT !.raised = snp1.raised, !.at = 220]
    ELSE RunOutcome(run, n_cases, n_controls)

\* "Create GenotypeArrays" from the indices drawn
RunArrays(self, run, n_cases, n_controls) ==
    RunMerge([run EXCEPT
                !.snp1_case_array =
                    get_gt_array(run.case_gt_table_idxs, gt_data_snp1, self.snp1),
                !.snp2_case_array =
                    get_gt_array(run.case_gt_table_idxs, gt_data_snp2, self.snp2),
                !.snp1_control_array =
                    get_gt_array(run.control_gt_table_idxs, gt_data_snp1, self.snp1),
                !.snp2_control_array =
                    get_gt_array(run.control_gt_table_idxs, gt_data_snp2, self.snp2)],
             n_cases, n_controls,
             concat(get_gt_array(run.case_gt_table_idxs, gt_data_snp1, self.snp1),
                    get_gt_array(run.control_gt_table_idxs, gt_data_snp1, self.snp1)))

\* control_gt_table_idxs = np.random.choice(...)
RunControls(self, run, n_cases, n_controls, controls) ==
    IF controls.raised # "none"
    THEN [run EXCEPT !.raised = controls.raised, !.at = 206]
    ELSE RunArrays(self,
                   [run EXCEPT !.drawn = 2,
                               !.control_gt_table_idxs = controls.idxs,
                               !.rng = controls.rng],
                   n_cases, n_controls)

\* case_gt_table_idxs = np.random.choice(...)
RunCases(self, run, n_cases, n_controls, maf1, maf2, cases) ==
    IF cases.raised # "none"
    THEN [run EXCEPT !.raised = cases.raised, !.at = 205]
    ELSE RunControls(self,
                     [run EXCEPT !.drawn = 1,
                                 !.case_gt_table_idxs = cases.idxs,
                                 !.rng = cases.rng],
                     n_cases, n_controls,
                     choice(n_controls,
                            flatten(prob_gt_given_control(run.pen_table, maf1, maf2)),
                            cases.rng))

\* from the scaled and adjusted pen_table (run.pen_table) to the first draw
RunScaled(self, run, n_cases, n_controls, maf1, maf2) ==
    RunCases(self, run, n_cases, n_controls, maf1, maf2,
             choice(n_cases,
                    flatten(prob_gt_given_case(run.pen_table, maf1, maf2)),
                    run.rng))

\* the body of generate_case_control run on self with the global generator
\* in state s
CaseControlRun(self, n_cases, n_controls, maf1, maf2, s) ==
    IF n_cases < 1 \/ n_controls < 0
    THEN [RunStart(n_cases, n_controls, maf1, maf2, s) EXCEPT
            !.raised = "ValueError", !.at = 167]
    ELSE RunScaled(self,
                   [RunStart(n_cases, n_controls, maf1, maf2, s) EXCEPT
                       !.pen_table = ScaledPenTable(self.pen_table)],
                   n_cases, n_controls, maf1, maf2)

\* mutant of CaseControlEffect: the table is rescaled in place, in self.pen_table
CaseControlEffect_in_place(self, n_cases, n_controls, maf1, maf2, s) ==
    LET run == CaseControlRun(self, n_cases, n_controls, maf1, maf2, s)
    IN  [self |-> [self EXCEPT !.pen_table = ScaledPenTable(self.pen_table)],
         rng  |-> run.rng,
         call |-> run]

\* what one call leaves behind: the object, the generator, the run's record
CaseControlEffect(self, n_cases, n_controls, maf1, maf2, s) ==
    LET run == CaseControlRun(self, n_cases, n_controls, maf1, maf2, s)
    IN  [self |-> self, rng |-> run.rng, call |-> run]

-----------------------------------------------------------------------------
(* Inputs *)

MaxCases == 1

MaxControls == 1

MaxCoef == 1

NCasesValues == 0..MaxCases

NControlsValues == -1..MaxControls

\* <<maf1, maf2>>: the defaults, the two ends of [0, 1] and a value beyond
MafArgs ==
    {<<Rat(3, 10), Rat(3, 10)>>, <<Num(0), Num(1)>>, <<Rat(3, 2), Rat(3, 10)>>}

CoefValues == {Num(k) : k \in 0..MaxCoef} \cup {Rat(-1, 2)}

SeedValues == {DefaultRandomSeed, DefaultRandomSeed + 1}

\* a supplied biallelic variant, one with no and one with two alternate alleles
SnpArgs ==
    {None, Variant("rs9", "G", <<"t">>), Variant("rs7", "C", <<>>),
     Variant("rs8", "C", <<"g", "t">>)}

ConstantPenTable == [r \in 1..3 |-> [c \in 1..3 |-> Rat(1, 2)]]

AdditivePenTable == [r \in 1..3 |-> [c \in 1..3 |-> Rat(r + c - 2, 2)]]

PenTableArgs ==
    {DefaultPenTable, ConstantPenTable, AdditivePenTable,
     << <<Num(0), Num(1), Num(2)>>, <<Num(0), Num(1), Num(2)>> >>,
     << <<Num(0), Num(1)>>, <<Num(0), Num(1)>>, <<Num(1), Num(2)>> >>}

EffArgs ==
    {EnumMember(n) : n \in DOMAIN SNPEffectEncodings}
        \cup {Tuple3(<<Num(2), Num(4), Num(6)>>), Tuple3(<<Num(1), Num(0), Num(0)>>),
              Tuple3(<<Num(1), Num(1), Num(1)>>)}

InitRequest(pen_table, snp1, snp2, random_seed) ==
    [entry |-> "__init__", pen_table |-> pen_table, snp1 |-> snp1, snp2 |-> snp2,
     random_seed |-> random_seed]

ModelRequest(eff1, eff2, baseline, main1, main2, interaction, snp1, snp2, random_seed) ==
    [entry |-> "from_model", eff1 |-> eff1, eff2 |-> eff2, baseline |-> baseline,
     main1 |-> main1, main2 |-> main2, interaction |-> interaction,
     snp1 |-> snp1, snp2 |-> snp2, random_seed |-> random_seed]

\* the constructions checked on their own
ModelRequests ==
    {InitRequest(t, s1, s2, seed) :
        t \in PenTableArgs, s1 \in SnpArgs, s2 \in SnpArgs, seed \in SeedValues}
    \cup
    {ModelRequest(e1, e2, b, m1, m2, i, None, s2, DefaultRandomSeed) :
        e1 \in EffArgs, e2 \in EffArgs, b \in {Num(0), Rat(-1, 2)}, m1 \in CoefValues,
        m2 \in CoefValues, i \in CoefValues,
        s2 \in {None, Variant("rs8", "C", <<"g", "t">>)}}

\* the constructions whose object generate_case_control is then called on
SimRequests ==
    {InitRequest(DefaultPenTable, None, None, DefaultRandomSeed),
     InitRequest(ConstantPenTable, Variant("rs9", "G", <<"t">>), None,
                 DefaultRandomSeed + 1),
     ModelRequest(EnumMember("ADDITIVE"), EnumMember("DOMINANT"), Num(0), Num(1), Num(1),
                  Num(1), None, None, DefaultRandomSeed)}

-----------------------------------------------------------------------------
(* Actions *)

\* __init__ called directly
Init_direct ==
    /\ pc = "start"
    /\ req.entry = "__init__"
    /\ LET r == NewSimulation(req.pen_table, req.snp1, req.snp2, req.random_seed)
       IN  IF r.raised = "none"
           THEN sim' = r.self /\ pc' = "built"
           ELSE sim' = NoSim /\ pc' = r.raised
    /\ UNCHANGED <<req, rng, call>>

from_model ==
    /\ pc = "start"
    /\ req.entry = "from_model"
    /\ LET pen_table == ModelPenTable(req.eff1, req.eff2, req.baseline,
                                      req.main1, req.main2, req.interaction)
           r == NewSimulation(pen_table, req.snp1, req.snp2, req.random_seed)
       IN  IF r.raised = "none"
           THEN sim' = r.self /\ pc' = "built"
           ELSE sim' = NoSim /\ pc' = r.raised
    /\ UNCHANGED <<req, rng, call>>

generate_case_control ==
    /\ pc = "built"
    /\ \E n_cases \in NCasesValues, n_controls \in NControlsValues, maf \in MafArgs :
          LET e == CaseControlEffect(sim, n_cases, n_controls, maf[1], maf[2], rng)
          IN  /\ sim' = e.self
              /\ rng' = e.rng
              /\ call' = e.call
    /\ UNCHANGED <<req, pc>>

InitModel ==
    /\ req \in ModelRequests
    /\ pc = "start"
    /\ sim = NoSim
    /\ rng = 0
    /\ call = NoCall

Init ==
    /\ req \in SimRequests
    /\ pc = "start"
    /\ sim = NoSim
    /\ rng \in 0..(RngMod - 1)
    /\ call = NoCall

NextModel == Init_direct \/ from_model

Next == Init_direct \/ from_model \/ generate_case_control

SpecModel == InitModel /\ [][NextModel]_vars

Spec == Init /\ [][Next]_vars

-----------------------------------------------------------------------------
(* Properties *)

\* a call of generate_case_control has ended on the configuration built
Called == pc = "built" /\ call # NoCall

InOpenUnit(x) == RLess(Num(0), x) /\ RLess(x, Num(1))

\* the arguments meet the documented preconditions
ValidArgs(a) == a[1] >= 1 /\ a[2] >= 0 /\ InOpenUnit(a[3]) /\ InOpenUnit(a[4])

CountOf(v, seq) == Cardinality({i \in 1..Len(seq) : seq[i] = v})

Perms(n) == {f \in [1..n -> 1..n] : \A i, j \in 1..n : f[i] = f[j] => i = j}

\* C1: every call with n_cases >= 1, n_controls >= 0 and maf1, maf2 in (0,1)
\* returns a dataset of n_cases + n_controls rows whose Outcome column holds
\* n_cases "Case" and n_controls "Control" values.
C1_ReturnsDataset ==
    (Called /\ ValidArgs(call.args)) =>
        /\ call.raised = "none"
        /\ call.result # None
        /\ Len(call.result.Outcome) = call.args[1] + call.args[2]
        /\ CountOf("Case", call.result.Outcome) = call.args[1]
        /\ CountOf("Control", call.result.Outcome) = call.args[2]

\* C2: the dataset returned carries, in every row, the outcome and the two
\* genotypes of one and the same pre-shuffle individual (cases first, then
\* controls): one permutation is applied to all three columns.
C2_ShuffleKeepsRowsAligned ==
    (Called /\ ValidArgs(call.args)) =>
        /\ call.result # None
        /\ LET n    == call.args[1] + call.args[2]
               out0 == ListTimes(<<"Case">>, call.args[1])
                          \o ListTimes(<<"Control">>, call.args[2])
               gt1  == call.snp1_case_array.values \o call.snp1_control_array.values
               gt2  == call.snp2_case_array.values \o call.snp2_control_array.values
           IN  \E f \in Perms(n) :
                   \A i \in 1..n :
                       /\ call.result.Outcome[i] = out0[f[i]]
                       /\ call.result.SNP1[i] = gt1[f[i]]
                       /\ call.result.SNP2[i] = gt2[f[i]]

\* C3: a call made again on a configuration with the same pen_table, variants
\* and random_seed and with the same arguments makes the same draws and ends
\* the same way, whatever state the process-wide generator is in.
C3_SeedDeterminesDraws ==
    [][(Called /\ Called' /\ sim' = sim /\ call'.args = call.args /\ ValidArgs(call.args))
          => /\ call'.raised = call.raised
             /\ call'.case_gt_table_idxs = call.case_gt_table_idxs
             /\ call'.control_gt_table_idxs = call.control_gt_table_idxs
             /\ call'.result = call.result]_vars

\* the raw 3-tuple of an eff argument
EffValue(eff) == IF eff.enum THEN SNPEffectEncodings[eff.name] ELSE eff.value

\* C4: for effect encodings with min 0 and max 1, from_model builds
\* table[r][c] = baseline + main1*eff1[c] + main2*eff2[r]
\*               + interaction*eff2[r]*eff1[c];
\* with main1 = main2 = interaction = 0 all 9 cells equal baseline, and
\* RECESSIVE/RECESSIVE with 0, 1, 1, 0 gives [[0,0,1],[0,0,1],[1,1,2]].
C4_ModelTable ==
    (pc = "built" /\ req.entry = "from_model"
        /\ VecMin(EffValue(req.eff1)) = <<0, 1>> /\ VecMax(EffValue(req.eff1)) = <<1, 1>>
        /\ VecMin(EffValue(req.eff2)) = <<0, 1>> /\ VecMax(EffValue(req.eff2)) = <<1, 1>>)
    => LET e1 == EffValue(req.eff1)
           e2 == EffValue(req.eff2)
       IN  /\ \A r \in 1..3, c \in 1..3 :
                  sim.pen_table[r][c] =
                      RAdd(RAdd(RAdd(req.baseline, RMul(req.main1, e1[c])),
                                RMul(req.main2, e2[r])),
                           RMul(req.interaction, RMul(e2[r], e1[c])))
           /\ (req.main1 = <<0, 1>> /\ req.main2 = <<0, 1>> /\ req.interaction = <<0, 1>>)
                  => \A r \in 1..3, c \in 1..3 : sim.pen_table[r][c] = req.baseline
           /\ (/\ req.eff1 = EnumMember("RECESSIVE") /\ req.eff2 = EnumMember("RECESSIVE")
               /\ req.baseline = <<0, 1>> /\ req.main1 = <<1, 1>>
               /\ req.main2 = <<1, 1>> /\ req.interaction = <<0, 1>>)
                  => sim.pen_table = << <<<<0, 1>>, <<0, 1>>, <<1, 1>>>>,
                                        <<<<0, 1>>, <<0, 1>>, <<1, 1>>>>,
                                        <<<<1, 1>>, <<1, 1>>, <<2, 1>>>> >>

\* a table with different main effects and an interaction, on two different
\* encodings
C4_Witness ==
    /\ pc = "built"
    /\ req.entry = "from_model"
    /\ req.eff1 = EnumMember("ADDITIVE")
    /\ req.eff2 = EnumMember("DOMINANT")
    /\ req.main1 = <<1, 1>>
    /\ req.main2 = <<-1, 2>>
    /\ req.interaction = <<1, 1>>
    /\ sim.pen_table[1][3] # sim.pen_table[3][1]

\* the construction asked for is one the constructor must refuse
Refused ==
    \/ req.entry = "__init__" /\ (Len(req.pen_table) # 3 \/ Len(req.pen_table[1]) # 3)
    \/ req.snp1 # None /\ Len(req.snp1.alt) # 1
    \/ req.snp2 # None /\ Len(req.snp2.alt) # 1

\* C5: through either entry point, construction raises and leaves no object
\* when the table is not 3x3 or a supplied variant does not have exactly one
\* alternate allele; otherwise it succeeds, a missing SNP1/SNP2 is replaced by
\* ("rs1", "A", "a") / ("rs2", "B", "b"), and the object holds a 3x3 table and
\* two variants with one alternate allele each.
C5_Construction ==
    pc # "start" =>
        IF Refused
        THEN pc = "ValueError" /\ sim = NoSim
        ELSE /\ pc = "built"
             /\ sim.snp1 = IF req.snp1 = None
                           THEN [id |-> "rs1", ref |-> "A", alt |-> <<"a">>]
                           ELSE req.snp1
             /\ sim.snp2 = IF req.snp2 = None
                           THEN [id |-> "rs2", ref |-> "B", alt |-> <<"b">>]
                           ELSE req.snp2
             /\ sim.random_seed = req.random_seed
             /\ Len(sim.pen_table) = 3
             /\ \A r \in 1..3 : Len(sim.pen_table[r]) = 3
             /\ Len(sim.snp1.alt) = 1
             /\ Len(sim.snp2.alt) = 1

\* from_model refused for its second variant alone
C5_Witness ==
    /\ pc = "ValueError"
    /\ req.entry = "from_model"
    /\ req.snp1 = None
    /\ req.snp2 # None
    /\ Len(req.snp2.alt) = 2

\* C6: a call with n_cases < 1, n_controls < 0, or maf1 or maf2 outside (0,1)
\* (0 and 1 included) raises a configuration error, draws no sample and
\* returns nothing.
C6_PreconditionErrors ==
    (Called /\ ~ValidArgs(call.args)) =>
        /\ call.raised = "ValueError"
        /\ call.drawn = 0
        /\ call.result = None

\* C7: for every 3x3 table, equal cells included, the rescaled table holds
\* only defined numbers in [0.01, 0.99]; the cells of the original minimum
\* become 0.01 and those of the original maximum 0.99.
C7_RescaleInRange ==
    (Called /\ call.pen_table # <<>>) =>
        \A r \in 1..3, c \in 1..3 :
            /\ ~IsNaN(call.pen_table[r][c])
            /\ RLeq(<<1, 100>>, call.pen_table[r][c])
            /\ RLeq(call.pen_table[r][c], <<99, 100>>)
            /\ sim.pen_table[r][c] = amin(sim.pen_table) => call.pen_table[r][c] = <<1, 100>>
            /\ sim.pen_table[r][c] = amax(sim.pen_table) => call.pen_table[r][c] = <<99, 100>>

\* C8: for every 3-length encoding, the effect vectors from_model builds the
\* table from have min 0 and max 1, and no cell of the table is undefined
\* (the all-equal encoding included).
C8_EffectsNormalised ==
    (pc # "start" /\ req.entry = "from_model") =>
        /\ amin(ShapedEff1(req.eff1)) = <<0, 1>>
        /\ amax(ShapedEff1(req.eff1)) = <<1, 1>>
        /\ amin(ShapedEff2(req.eff2)) = <<0, 1>>
        /\ amax(ShapedEff2(req.eff2)) = <<1, 1>>
        /\ pc = "built" => \A r \in 1..3, c \in 1..3 : ~IsNaN(sim.pen_table[r][c])

\* C9: no call of generate_case_control, ended by an exception or not,
\* changes the pen_table, snp1, snp2 or random_seed of the object.
C9_ReadOnly == [][pc = "built" => sim' = sim]_vars

\* a call that went through validation, scaling and both draws
C9_Witness == Called /\ call.drawn = 2 /\ call.pen_table # sim.pen_table

\* the genotype state of index 0, 1, 2
GtOfState(k) == IF k = 0 THEN <<0, 0>> ELSE IF k = 1 THEN <<0, 1>> ELSE <<1, 1>>

\* the records of one group are those of its drawn indices, row-major: index
\* i has the weight of the posterior cell at row i div 3, column i mod 3
Materialized(idxs, snp1_array, snp2_array, posterior) ==
    /\ Len(snp1_array.values) = Len(idxs)
    /\ Len(snp2_array.values) = Len(idxs)
    /\ \A k \in 1..Len(idxs) :
          LET i == idxs[k]
          IN  /\ i \in 0..8
              /\ RLess(<<0, 1>>, posterior[(i \div 3) + 1][(i % 3) + 1])
              /\ snp1_array.values[k][1] = GtOfState(i % 3)
              /\ snp2_array.values[k][1] = GtOfState(i \div 3)

====
